---- MODULE Spec2Model ----
(***************************************************************************)
(* Model of zmq::zmq_engine_t (src/src/zmq_engine.cpp): the engine that    *)
(* bridges a non-blocking TCP socket and a session through a decoder and   *)
(* an encoder.  One action per public operation; every action models the   *)
(* whole handler, nested calls (in_event inside plug, error inside         *)
(* in_event, ...) included.  The collaborators (socket, decoder, encoder,  *)
(* session, poller) are modelled at their interface: their outcomes are    *)
(* the inputs of the actions.                                              *)
(***************************************************************************)
EXTENDS Integers, Sequences, FiniteSets, TLC

\* ---- bounds -------------------------------------------------------------
\* Number of bytes the peer can ever deliver on the socket.
MaxWire == 3
\* Number of bytes the encoder can ever serialise.
MaxOut == 2
\* Capacity of the decoder's buffer (in_batch_size of config.hpp).
InBatch == 2
\* Capacity of the encoder's buffer (out_batch_size of config.hpp).
OutBatch == 2
\* Number of distinct session objects.
MaxSession == 2

\* ---- values -------------------------------------------------------------
\* The NULL session pointer.
NoSession == 0
Sessions == 1..MaxSession
\* Bytes the peer sends, in order; all distinct.
Wire == [i \in 1..MaxWire |-> i]
\* Bytes the encoder serialises, in order; all distinct.
EncStream == [i \in 1..MaxOut |-> 10 + i]

Min(a, b) == IF a < b THEN a ELSE b

\* The n bytes of buffer buf starting at offset pos (a pointer + length).
Bytes(buf, pos, n) == [i \in 1..n |-> buf[pos + i]]

\* buf with its first Len(s) bytes overwritten by s.
Fill(buf, s) == [i \in DOMAIN buf |-> IF i <= Len(s) THEN s[i] ELSE buf[i]]

IsPrefix(s, t) == Len(s) <= Len(t) /\ \A i \in 1..Len(s) : s[i] = t[i]

VARIABLES
    plugged, session, leftover_session,   \* engine fields
    inbuf, inpos, insize,                 \* decoder buffer and the engine's view of it
    outbuf, outpos, outsize,              \* encoder buffer and the engine's view of it
    disposed,                             \* the engine object has been deleted
    aborted,                              \* a zmq_assert failed
    registered, pollin, pollout,          \* poller state of the descriptor handle
    dec_session, enc_session,             \* session the decoder / encoder is attached to
    rd, decoded,                          \* bytes read off the wire; bytes the decoder accepted
    produced, sent,                       \* bytes the encoder handed out; bytes the socket accepted
    disconnection,                        \* local flag of the running in_event
    lastShort,                            \* most recent process_buffer returned less than it was given
    op, calls                             \* last operation and the collaborator calls it made

vars == <<plugged, session, leftover_session, inbuf, inpos, insize,
          outbuf, outpos, outsize, disposed, aborted, registered, pollin,
          pollout, dec_session, enc_session, rd, decoded, produced, sent,
          disconnection, lastShort, op, calls>>

\* The whole state as one record, so that the handlers compose as functions.
St == [plugged |-> plugged, session |-> session,
       leftover_session |-> leftover_session,
       inbuf |-> inbuf, inpos |-> inpos, insize |-> insize,
       outbuf |-> outbuf, outpos |-> outpos, outsize |-> outsize,
       disposed |-> disposed, aborted |-> aborted,
       registered |-> registered, pollin |-> pollin, pollout |-> pollout,
       dec_session |-> dec_session, enc_session |-> enc_session,
       rd |-> rd, decoded |-> decoded, produced |-> produced, sent |-> sent,
       disconnection |-> disconnection, lastShort |-> lastShort,
       op |-> op, calls |-> calls]

Apply(e) ==
    /\ plugged' = e.plugged
    /\ session' = e.session
    /\ leftover_session' = e.leftover_session
    /\ inbuf' = e.inbuf
    /\ inpos' = e.inpos
    /\ insize' = e.insize
    /\ outbuf' = e.outbuf
    /\ outpos' = e.outpos
    /\ outsize' = e.outsize
    /\ disposed' = e.disposed
    /\ aborted' = e.aborted
    /\ registered' = e.registered
    /\ pollin' = e.pollin
    /\ pollout' = e.pollout
    /\ dec_session' = e.dec_session
    /\ enc_session' = e.enc_session
    /\ rd' = e.rd
    /\ decoded' = e.decoded
    /\ produced' = e.produced
    /\ sent' = e.sent
    /\ disconnection' = e.disconnection
    /\ lastShort' = e.lastShort
    /\ op' = e.op
    /\ calls' = e.calls

\* Record a call on a collaborator (name, argument or result).
Log(e, name, arg) == [e EXCEPT !.calls = Append(@, <<name, arg>>)]

\* Start of a public operation: a fresh call record.
Begin(e, name) == [e EXCEPT !.op = name, !.calls = <<>>, !.disconnection = FALSE]

\* zmq_assert (cond): abort the process when cond is false.
zmq_assert(e, cond) == IF cond THEN e ELSE [e EXCEPT !.aborted = TRUE]

\* ---- poller (io_object_t) ----------------------------------------------
add_fd(e) ==
    Log([e EXCEPT !.registered = TRUE, !.pollin = FALSE, !.pollout = FALSE],
        "add_fd", 0)

rm_fd(e) ==
    Log([zmq_assert(e, e.registered) EXCEPT
            !.registered = FALSE, !.pollin = FALSE, !.pollout = FALSE],
        "rm_fd", 0)

set_pollin(e) ==
    Log([zmq_assert(e, e.registered) EXCEPT !.pollin = e.registered],
        "set_pollin", 0)

reset_pollin(e) ==
    Log([zmq_assert(e, e.registered) EXCEPT !.pollin = FALSE],
        "reset_pollin", 0)

set_pollout(e) ==
    Log([zmq_assert(e, e.registered) EXCEPT !.pollout = e.registered],
        "set_pollout", 0)

reset_pollout(e) ==
    Log([zmq_assert(e, e.registered) EXCEPT !.pollout = FALSE],
        "reset_pollout", 0)

\* ---- lifecycle -----------------------------------------------------------
\* ~zmq_engine_t: asserts !plugged, then the object is gone.
dtor(e) == Log([zmq_assert(e, ~e.plugged) EXCEPT !.disposed = TRUE], "delete", 0)

\* unplug that forgets to clear the current session.
unplug_keeps_session(e) ==
    LET a == zmq_assert(e, e.plugged)
        b == rm_fd([a EXCEPT !.plugged = FALSE])
        c == Log(b, "io_unplug", 0)
    IN  [c EXCEPT !.enc_session = NoSession, !.dec_session = NoSession,
                  !.leftover_session = c.session]

unplug(e) ==
    LET a == zmq_assert(e, e.plugged)
        b == rm_fd([a EXCEPT !.plugged = FALSE])
        c == Log(b, "io_unplug", 0)
    IN  [c EXCEPT !.enc_session = NoSession, !.dec_session = NoSession,
                  !.leftover_session = c.session, !.session = NoSession]

\* terminate that disposes without unplugging.
terminate_no_unplug(e) == dtor(e)

terminate(e) == dtor(unplug(e))

\* error that unplugs before it notifies the session.
error_unplug_first(e) ==
    LET a == zmq_assert(e, e.session # NoSession)
        b == unplug(a)
    IN  dtor(Log(b, "detach", a.session))

error(e) ==
    LET a == zmq_assert(e, e.session # NoSession)
        b == Log(a, "detach", a.session)
    IN  dtor(unplug(b))

\* ---- inbound path --------------------------------------------------------
\* decoder.get_buffer: the decoder lends its whole buffer.
get_buffer(e) == Log([e EXCEPT !.inpos = 0, !.insize = InBatch], "get_buffer", InBatch)

\* tcp_socket.read (inpos, insize): n >= 0 bytes copied to the buffer, or -1
\* when the peer closed the connection or the socket failed.
tcp_read(e, n) ==
    LET r == Log(e, "read", n)
    IN  IF n = -1 THEN [r EXCEPT !.insize = -1]
        ELSE [r EXCEPT !.insize = n, !.rd = e.rd + n,
                       !.inbuf = Fill(e.inbuf, Bytes(Wire, e.rd, n))]

\* decoder.process_buffer (inpos, insize): the decoder accepts the first k
\* bytes it is given (k = -1: decoding error, nothing accepted); while it
\* pushes messages to the session, the session may unplug the engine (re).
process_buffer(e, k, re) ==
    LET n == IF k = -1 THEN 0 ELSE k
        d == Log(Log([e EXCEPT !.decoded = @ \o Bytes(e.inbuf, e.inpos, n),
                               !.lastShort = (k # -1 /\ k < e.insize)],
                     "process_size", e.insize),
                 "process_buffer", k)
    IN  IF re /\ d.plugged THEN unplug(Log(d, "reentrant_unplug", 0)) ELSE d

\* The refill that reads from the socket whether or not bytes are buffered.
in_read_always(e, n) ==
    LET r == tcp_read(get_buffer(e), n)
    IN  IF r.insize = -1
        THEN [r EXCEPT !.insize = 0, !.disconnection = TRUE]
        ELSE r

\* Lines 110-124: refill the buffer from the socket when it is empty.
in_read(e, n) ==
    IF e.insize = 0
    THEN LET r == tcp_read(get_buffer(e), n)
         IN  IF r.insize = -1
             THEN [r EXCEPT !.insize = 0, !.disconnection = TRUE]
             ELSE r
    ELSE e

\* The buffer adjustment without the advance of the cursor.
in_adjust_no_advance(e, processed) ==
    IF processed = -1
    THEN [e EXCEPT !.disconnection = TRUE]
    ELSE LET p == IF processed < e.insize /\ e.plugged THEN reset_pollin(e) ELSE e
         IN  [p EXCEPT !.insize = @ - processed]

\* The adjustment that stops polling for input on a decoding error too.
in_adjust_error_pauses(e, processed) ==
    IF processed = -1
    THEN [(IF e.plugged THEN reset_pollin(e) ELSE e) EXCEPT !.disconnection = TRUE]
    ELSE LET p == IF processed < e.insize /\ e.plugged THEN reset_pollin(e) ELSE e
         IN  [p EXCEPT !.inpos = @ + processed, !.insize = @ - processed]

\* The adjustment that stops polling for input without looking at the
\* plugged flag.
in_adjust_no_plugged_check(e, processed) ==
    IF processed = -1
    THEN [e EXCEPT !.disconnection = TRUE]
    ELSE LET p == IF processed < e.insize THEN reset_pollin(e) ELSE e
         IN  [p EXCEPT !.inpos = @ + processed, !.insize = @ - processed]

\* Lines 129-145: act on the result of process_buffer.
in_adjust(e, processed) ==
    IF processed = -1
    THEN [e EXCEPT !.disconnection = TRUE]
    ELSE LET p == IF processed < e.insize /\ e.plugged THEN reset_pollin(e) ELSE e
         IN  [p EXCEPT !.inpos = @ + processed, !.insize = @ - processed]

\* The flush that always goes to the current session.
in_flush_current(e) == Log(e, "flush", e.session)

\* Lines 147-154: flush what the decoder produced.
in_flush(e) ==
    IF ~e.plugged
    THEN LET a == zmq_assert(e, e.leftover_session # NoSession)
         IN  Log(a, "flush", a.leftover_session)
    ELSE Log(e, "flush", e.session)

\* The end of in_event that never reports the disconnection.
in_finish_no_error(e) == e

\* Lines 156-157.
in_finish(e) == IF e.session # NoSession /\ e.disconnection THEN error(e) ELSE e

\* in_event that reports the disconnection before it flushes.
in_event_error_first(e, n, k, re) ==
    LET a == in_read([e EXCEPT !.disconnection = FALSE], n)
        b == process_buffer(a, k, re)
        c == in_adjust(b, k)
    IN  in_flush(in_finish(c))

\* in_event with read outcome n, process_buffer outcome k and reentrant
\* unplug re.
in_event(e, n, k, re) ==
    LET a == in_read([e EXCEPT !.disconnection = FALSE], n)
        b == process_buffer(a, k, re)
        c == in_adjust(b, k)
    IN  in_finish(in_flush(c))

\* The outcomes the socket and the decoder can produce for in_event in e.
ReadOutcomes(e) ==
    IF e.insize = 0 THEN -1..Min(InBatch, MaxWire - e.rd) ELSE {0}

Available(e, n) == IF e.insize = 0 THEN (IF n = -1 THEN 0 ELSE n) ELSE e.insize

ConsumeOutcomes(e, n) == -1..Available(e, n)

\* ---- outbound path -------------------------------------------------------
\* encoder.get_data (&outpos, &outsize): the encoder serialises the next len
\* bytes into its buffer (len = 0: nothing to send); while it pulls messages
\* from the session, the session may unplug the engine (re).
get_data(e, len, re) ==
    LET d == Log([e EXCEPT !.outpos = 0, !.outsize = len,
                           !.produced = e.produced + len,
                           !.outbuf = Fill(e.outbuf, Bytes(EncStream, e.produced, len))],
                 "get_data", len)
    IN  IF re /\ d.plugged THEN unplug(Log(d, "reentrant_unplug", 0)) ELSE d

\* tcp_socket.write (outpos, outsize): the socket accepts the first n bytes
\* (n = -1: the connection failed).
tcp_write(e, n) ==
    LET m == IF n = -1 THEN 0 ELSE n
    IN  Log([e EXCEPT !.sent = @ \o Bytes(e.outbuf, e.outpos, m)], "write", n)

\* The advance of the outbound view that forgets the cursor.
out_advance_no_cursor(e, nbytes) == [e EXCEPT !.outsize = @ - nbytes]

\* Lines 195-196.
out_advance(e, nbytes) == [e EXCEPT !.outpos = @ + nbytes, !.outsize = @ - nbytes]

\* The write attempt that goes on after error.
out_write_no_return(e, nbytes) ==
    LET w == tcp_write(e, nbytes)
    IN  out_advance(IF nbytes = -1 THEN error(w) ELSE w, nbytes)

\* The write attempt that pauses write interest when it empties the buffer.
out_write_pauses_when_empty(e, nbytes) ==
    LET w == tcp_write(e, nbytes)
    IN  IF nbytes = -1 THEN error(w)
        ELSE LET a == out_advance(w, nbytes)
             IN  IF a.outsize = 0 THEN reset_pollout(a) ELSE a

\* Lines 187-196: one write attempt.
out_write(e, nbytes) ==
    LET w == tcp_write(e, nbytes)
    IN  IF nbytes = -1 THEN error(w) ELSE out_advance(w, nbytes)

\* out_event that writes even when the encoder had nothing to send.
out_event_writes_empty(e, len, re, nbytes) ==
    IF e.outsize = 0
    THEN LET g == get_data([e EXCEPT !.outpos = 0], len, re)
         IN  IF ~g.plugged
             THEN LET a == zmq_assert(g, g.leftover_session # NoSession)
                  IN  Log(a, "flush", a.leftover_session)
             ELSE out_write(g, IF nbytes > g.outsize THEN g.outsize ELSE nbytes)
    ELSE out_write(e, nbytes)

\* out_event that asks the encoder for data whether or not bytes are pending.
out_event_always_refills(e, len, re, nbytes) ==
    LET g == get_data([e EXCEPT !.outpos = 0], len, re)
    IN  IF ~g.plugged
        THEN LET a == zmq_assert(g, g.leftover_session # NoSession)
             IN  Log(a, "flush", a.leftover_session)
        ELSE IF g.outsize = 0
             THEN reset_pollout(g)
             ELSE out_write(g, IF nbytes > g.outsize THEN g.outsize ELSE nbytes)

\* out_event that looks at the length of the chunk before it looks at the
\* plugged flag.
out_event_pause_before_check(e, len, re, nbytes) ==
    IF e.outsize = 0
    THEN LET g == get_data([e EXCEPT !.outpos = 0], len, re)
         IN  IF g.outsize = 0
             THEN reset_pollout(g)
             ELSE IF ~g.plugged
                  THEN LET a == zmq_assert(g, g.leftover_session # NoSession)
                       IN  Log(a, "flush", a.leftover_session)
                  ELSE out_write(g, nbytes)
    ELSE out_write(e, nbytes)

\* out_event with encoder outcome (len, re) and write outcome nbytes.
out_event(e, len, re, nbytes) ==
    IF e.outsize = 0
    THEN LET g == get_data([e EXCEPT !.outpos = 0], len, re)
         IN  IF ~g.plugged
             THEN LET a == zmq_assert(g, g.leftover_session # NoSession)
                  IN  Log(a, "flush", a.leftover_session)
             ELSE IF g.outsize = 0
                  THEN reset_pollout(g)
                  ELSE out_write(g, nbytes)
    ELSE out_write(e, nbytes)

\* The outcomes the encoder and the socket can produce for out_event in e.
RefillOutcomes(e) ==
    IF e.outsize = 0 THEN 0..Min(OutBatch, MaxOut - e.produced) ELSE {0}

WriteOutcomes(e, len) == -1..(IF e.outsize = 0 THEN len ELSE e.outsize)

\* ---- plug and the resume operations --------------------------------------
\* plug that registers read interest only.
plug_no_pollout(e, session_, n, k, re) ==
    LET a == zmq_assert(e, ~e.plugged)
        b == [a EXCEPT !.plugged = TRUE, !.leftover_session = NoSession]
        c == zmq_assert(zmq_assert(b, b.session = NoSession), session_ # NoSession)
        d == [c EXCEPT !.enc_session = session_, !.dec_session = session_,
                       !.session = session_]
        f == set_pollin(add_fd(Log(d, "io_plug", 0)))
    IN  in_event(f, n, k, re)

\* plug that keeps the leftover session of the previous epoch.
plug_keeps_leftover(e, session_, n, k, re) ==
    LET a == zmq_assert(e, ~e.plugged)
        b == [a EXCEPT !.plugged = TRUE]
        c == zmq_assert(zmq_assert(b, b.session = NoSession), session_ # NoSession)
        d == [c EXCEPT !.enc_session = session_, !.dec_session = session_,
                       !.session = session_]
        f == set_pollout(set_pollin(add_fd(Log(d, "io_plug", 0))))
    IN  in_event(f, n, k, re)

plug(e, session_, n, k, re) ==
    LET a == zmq_assert(e, ~e.plugged)
        b == [a EXCEPT !.plugged = TRUE, !.leftover_session = NoSession]
        c == zmq_assert(zmq_assert(b, b.session = NoSession), session_ # NoSession)
        d == [c EXCEPT !.enc_session = session_, !.dec_session = session_,
                       !.session = session_]
        f == set_pollout(set_pollin(add_fd(Log(d, "io_plug", 0))))
    IN  in_event(f, n, k, re)

\* activate_out that does not re-enable write interest.
activate_out_no_set(e, len, re, nbytes) == out_event(e, len, re, nbytes)

activate_out(e, len, re, nbytes) == out_event(set_pollout(e), len, re, nbytes)

\* activate_in that does not re-enable read interest.
activate_in_no_set(e, n, k, re) == in_event(e, n, k, re)

activate_in(e, n, k, re) == in_event(set_pollin(e), n, k, re)

\* ---- the state machine ---------------------------------------------------
\* The constructor: an unplugged engine on an open socket.
Init ==
    /\ plugged = FALSE
    /\ session = NoSession
    /\ leftover_session = NoSession
    /\ inbuf = [i \in 1..InBatch |-> 0]
    /\ inpos = 0
    /\ insize = 0
    /\ outbuf = [i \in 1..OutBatch |-> 0]
    /\ outpos = 0
    /\ outsize = 0
    /\ disposed = FALSE
    /\ aborted = FALSE
    /\ registered = FALSE
    /\ pollin = FALSE
    /\ pollout = FALSE
    /\ dec_session = NoSession
    /\ enc_session = NoSession
    /\ rd = 0
    /\ decoded = <<>>
    /\ produced = 0
    /\ sent = <<>>
    /\ disconnection = FALSE
    /\ lastShort = FALSE
    /\ op = "ctor"
    /\ calls = <<>>

\* The engine object exists and the process runs.
Live == ~disposed /\ ~aborted

\* The owner plugs an unplugged engine into a session.
Plug ==
    /\ Live /\ ~plugged /\ session = NoSession
    /\ \E s \in Sessions, re \in BOOLEAN :
       \E n \in ReadOutcomes(St) : \E k \in ConsumeOutcomes(St, n) :
          Apply(plug(Begin(St, "plug"), s, n, k, re))

\* The owner unplugs a plugged engine.
Unplug ==
    /\ Live /\ plugged
    /\ Apply(unplug(Begin(St, "unplug")))

\* The owner terminates a plugged engine.
Terminate ==
    /\ Live /\ plugged
    /\ Apply(terminate(Begin(St, "terminate")))

\* in_event is called on a plugged engine.  The handler does not look at the
\* read interest: it also runs while read interest is paused (a readiness
\* event that was already on its way, or an error condition on the
\* descriptor) and then retries the buffered bytes.
InEvent ==
    /\ Live /\ plugged
    /\ \E re \in BOOLEAN :
       \E n \in ReadOutcomes(St) : \E k \in ConsumeOutcomes(St, n) :
          Apply(in_event(Begin(St, "in_event"), n, k, re))

\* out_event is called on a plugged engine.  The handler does not look at the
\* write interest: it also runs while write interest is paused (a readiness
\* event that was already on its way).
OutEvent ==
    /\ Live /\ plugged
    /\ \E re \in BOOLEAN :
       \E len \in RefillOutcomes(St) : \E nbytes \in WriteOutcomes(St, len) :
          Apply(out_event(Begin(St, "out_event"), len, re, nbytes))

\* The session has room for inbound messages again.
ActivateIn ==
    /\ Live /\ plugged
    /\ \E re \in BOOLEAN :
       \E n \in ReadOutcomes(St) : \E k \in ConsumeOutcomes(St, n) :
          Apply(activate_in(Begin(St, "activate_in"), n, k, re))

\* The session has outbound messages again.
ActivateOut ==
    /\ Live /\ plugged
    /\ \E re \in BOOLEAN :
       \E len \in RefillOutcomes(St) : \E nbytes \in WriteOutcomes(St, len) :
          Apply(activate_out(Begin(St, "activate_out"), len, re, nbytes))

Next ==
    \/ Plug
    \/ Unplug
    \/ Terminate
    \/ InEvent
    \/ OutEvent
    \/ ActivateIn
    \/ ActivateOut

Spec == Init /\ [][Next]_vars

\* ---- reading the call record ---------------------------------------------
Has(name) == \E i \in DOMAIN calls : calls[i][1] = name

HasCall(name, arg) == \E i \in DOMAIN calls : calls[i] = <<name, arg>>

Count(name) == Cardinality({i \in DOMAIN calls : calls[i][1] = name})

\* Position of the first call of that name (0: none).
Idx(name) ==
    IF Has(name)
    THEN CHOOSE i \in DOMAIN calls :
            /\ calls[i][1] = name
            /\ \A j \in 1..(i - 1) : calls[j][1] # name
    ELSE 0

\* Targets of the flushes of the last operation.
FlushTargets == {calls[i][2] : i \in {j \in DOMAIN calls : calls[j][1] = "flush"}}

\* The bytes of the decoder buffer the engine still holds.
Buffered == Bytes(inbuf, inpos, insize)

\* The bytes of the encoder buffer the engine still has to write.
Pending == Bytes(outbuf, outpos, outsize)

\* The bytes the socket has delivered so far.
Delivered == Bytes(Wire, 0, rd)

\* The chunks the encoder has handed out so far, concatenated.
Acquired == Bytes(EncStream, 0, produced)

\* A terminal cause occurred in the last operation.
TerminalCause ==
    \/ HasCall("read", -1)
    \/ HasCall("process_buffer", -1)
    \/ HasCall("write", -1)

\* ---- claims ----------------------------------------------------------------

\* C1: inbound byte conservation.  The bytes the decoder has accepted,
\* followed by the bytes still buffered, are exactly the bytes the socket
\* delivered, in order; once the buffer is empty the accepted bytes (the sum
\* of the consumed counts) are all N delivered bytes.
C1_InboundConservation ==
    /\ decoded \o Buffered = Delivered
    /\ IsPrefix(decoded, Wire)
    /\ insize = 0 => (decoded = Delivered /\ Len(decoded) = rd)

\* All bytes of the wire were delivered over several reads, and the last
\* operation drained a remainder left by an earlier short consume.
C1_Witness ==
    /\ rd = MaxWire /\ decoded = Wire /\ insize = 0
    /\ Has("process_buffer") /\ ~Has("read") /\ inpos > 0

\* C2: outbound byte ordering.  The bytes the socket accepted are a prefix of
\* the concatenated encoder chunks, and together with the bytes still pending
\* they are exactly those chunks.
C2_OutboundOrdering ==
    /\ IsPrefix(sent, Acquired)
    /\ sent \o Pending = Acquired

\* Everything was sent, and the last out_event completed a partial write.
C2_Witness ==
    /\ sent = EncStream /\ produced = MaxOut /\ outsize = 0
    /\ op = "out_event" /\ ~Has("get_data") /\ Has("write") /\ outpos > 1

\* C3 as stated: every terminal cause ends with detach, deregistration and
\* disposal, also when process_buffer unplugged the engine reentrantly.
C3_Original ==
    TerminalCause => (Has("detach") /\ Has("rm_fd") /\ disposed)

\* C3 as amended: a terminal cause ends with detach, deregistration and
\* disposal when no reentrant unplug happened in the handler; after a
\* reentrant unplug the handler flushes the leftover session only: no detach
\* is sent and the engine stays unplugged and is not disposed.
C3_TerminalHandling ==
    TerminalCause =>
        IF Has("reentrant_unplug")
        THEN /\ ~Has("detach") /\ ~Has("delete")
             /\ ~disposed /\ ~plugged /\ ~registered
             /\ FlushTargets = {leftover_session}
        ELSE /\ Count("detach") = 1 /\ Count("rm_fd") = 1 /\ Count("delete") = 1
             /\ disposed /\ ~plugged /\ ~registered
             /\ session = NoSession /\ ~aborted

\* A decoding error disposed the engine.
C3_Witness ==
    /\ HasCall("process_buffer", -1) /\ ~Has("reentrant_unplug")
    /\ Has("detach") /\ disposed

\* C4: no handler flushes more than once, and a handler in which the engine
\* was unplugged reentrantly flushes exactly once, to the leftover session,
\* which is not null, while the current session reference is null.
C4_LeftoverFlush ==
    /\ Count("flush") <= 1
    /\ Has("reentrant_unplug") =>
          /\ Count("flush") = 1
          /\ FlushTargets = {leftover_session}
          /\ leftover_session # NoSession
          /\ session = NoSession
          /\ ~aborted

\* The engine was unplugged inside process_buffer and flushed its leftover
\* session.
C4_Witness ==
    /\ op = "in_event" /\ Has("reentrant_unplug")
    /\ FlushTargets = {leftover_session} /\ leftover_session # NoSession

\* C5 as stated: after every operation that leaves the engine plugged, read
\* interest is paused exactly when the most recent process_buffer returned
\* less than it was given; and within a plugged epoch only activate_in turns
\* paused read interest active again.
C5_Original ==
    [][/\ plugged' => (pollin' <=> ~lastShort')
       /\ (plugged /\ ~pollin /\ plugged' /\ pollin') => op' = "activate_in"]_vars

\* C5 as amended: after every operation that leaves the engine plugged, read
\* interest is paused if the most recent process_buffer returned less than it
\* was given; it is paused only for that reason or because it was paused
\* before and the operation was not activate_in (an in_event that runs while
\* read interest is paused and consumes everything leaves it paused); and
\* within a plugged epoch only activate_in turns paused read interest active
\* again.
C5_ReadPause ==
    [][/\ (plugged' /\ lastShort') => ~pollin'
       /\ (plugged' /\ ~pollin') =>
             (lastShort' \/ (plugged /\ ~pollin /\ op' # "activate_in"))
       /\ (plugged /\ ~pollin /\ plugged' /\ pollin') => op' = "activate_in"]_vars

\* An in_event ran while read interest was paused and consumed all the
\* buffered bytes: read interest is still paused.
C5_Witness ==
    /\ op = "in_event" /\ plugged /\ ~pollin /\ ~lastShort
    /\ ~Has("read") /\ Has("process_buffer") /\ insize = 0

\* C6 as stated: plug always ends plugged with both interests active.
C6_Original == op = "plug" => (plugged /\ pollin /\ pollout)

\* C6 as amended: plug sets both interests before its drain pass; it ends
\* plugged with both interests active when the pass meets no closed read, no
\* decoding error, no reentrant unplug and no short consume; a short consume
\* leaves it plugged with read interest paused, a reentrant unplug leaves it
\* unplugged, a closed read or decoding error leaves it disposed.
C6_PlugPostcondition ==
    op = "plug" =>
        /\ ~aborted
        /\ 0 < Idx("set_pollin") /\ Idx("set_pollin") < Idx("process_buffer")
        /\ 0 < Idx("set_pollout") /\ Idx("set_pollout") < Idx("process_buffer")
        /\ IF Has("reentrant_unplug") THEN ~plugged /\ ~disposed
           ELSE IF TerminalCause THEN disposed /\ ~plugged
           ELSE /\ plugged /\ ~disposed /\ pollout
                /\ pollin <=> ~lastShort

\* plug ended plugged with both interests active.
C6_Witness == op = "plug" /\ plugged /\ pollin /\ pollout /\ HasCall("read", 0)

\* C7: error calls detach, then deregisters the handle, then disposes; after
\* it the engine is disposed, unplugged and unregistered, and nothing can be
\* done with it any more.
C7_ErrorOrder ==
    /\ Has("detach") =>
          /\ Idx("detach") < Idx("rm_fd")
          /\ Idx("rm_fd") < Idx("delete")
          /\ Idx("delete") = Len(calls)
          /\ disposed
    /\ disposed => (~plugged /\ ~registered /\ ~pollin /\ ~pollout /\ ~ENABLED Next)

\* error ran because a write failed.
C7_Witness == HasCall("write", -1) /\ Has("detach") /\ disposed

\* C8: an out_event whose refill yields nothing writes nothing: the socket is
\* untouched, the outbound view is empty, write interest is not active, and
\* while the engine is still plugged it was paused by reset_pollout.
C8_NoWriteAfterEmptyRefill ==
    (op \in {"out_event", "activate_out"} /\ HasCall("get_data", 0)) =>
        /\ ~Has("write")
        /\ outsize = 0
        /\ ~pollout
        /\ plugged => Has("reset_pollout")
        /\ ~disposed

\* An out_event found nothing to send and paused write interest.
C8_Witness ==
    /\ op = "out_event" /\ HasCall("get_data", 0)
    /\ plugged /\ ~pollout /\ Has("reset_pollout")

\* C9: the current session and the leftover session are never both non-null
\* between operations.
C9_OneSession == ~(session # NoSession /\ leftover_session # NoSession)

\* The engine was plugged again after an epoch that left bytes buffered.
C9_Witness ==
    /\ op = "plug" /\ session # NoSession /\ leftover_session = NoSession
    /\ Has("process_buffer") /\ ~Has("get_buffer")

\* C10: the engine is disposed only after unplug: the destructor finds the
\* plugged flag false, and the handle was removed before the delete.
C10_DisposedUnplugged ==
    disposed =>
        /\ ~plugged /\ ~aborted /\ ~registered
        /\ 0 < Idx("rm_fd") /\ Idx("rm_fd") < Idx("delete")

\* terminate disposed the engine.
C10_Witness == disposed /\ op = "terminate"

\* Argument or result of the first call of that name.
Result(name) == calls[Idx(name)][2]

\* The last operation ran in_event, directly or inside plug / activate_in.
RanInEvent == op \in {"in_event", "plug", "activate_in"}

\* The last operation ran out_event, directly or inside activate_out.
RanOutEvent == op \in {"out_event", "activate_out"}

\* C11 as stated: activate_out with a write mid-flight leaves the outbound
\* cursor and the remaining length as they were.
C11_Original ==
    [][(op' = "activate_out" /\ outsize > 0) =>
          (outpos' = outpos /\ outsize' = outsize)]_vars

\* C11 as amended: activate_out with a write mid-flight re-asserts write
\* interest, acquires nothing from the encoder and makes one speculative
\* write; the cursor and the remaining length move by the bytes that write
\* accepted (they stay when it accepts none), and a failed write runs error.
C11_ActivateOutMidFlight ==
    [][(op' = "activate_out" /\ outsize > 0) =>
          /\ Idx("set_pollout")' = 1
          /\ ~Has("get_data")' /\ Count("write")' = 1
          /\ outbuf' = outbuf /\ produced' = produced
          /\ IF Result("write")' = -1
             THEN Has("detach")' /\ disposed' /\ ~pollout'
             ELSE /\ outpos' = outpos + Result("write")'
                  /\ outsize' = outsize - Result("write")'
                  /\ plugged' /\ pollout' /\ ~disposed'
                  /\ sent' = sent \o Bytes(outbuf, outpos, Result("write")')]_vars

\* activate_out was called with bytes pending and wrote some of them.
C11_Witness ==
    /\ op = "activate_out" /\ ~Has("get_data")
    /\ Has("write") /\ Result("write") > 0 /\ outsize > 0

\* C12 as stated: from paused read interest with bytes buffered, an
\* activate_in whose consume accepts them all ends plugged, with read
\* interest active, the buffer empty and no detach; from paused write
\* interest, an activate_out whose refill is not empty attempts the write and
\* ends with write interest active; a pause never comes with error.
C12_Original ==
    [][/\ (op' = "activate_in" /\ plugged /\ ~pollin /\ insize > 0
              /\ Result("process_buffer")' = insize) =>
          (pollin' /\ insize' = 0 /\ plugged' /\ ~Has("detach")')
       /\ (op' = "activate_out" /\ plugged /\ ~pollout
              /\ Has("get_data")' /\ Result("get_data")' > 0) =>
          (pollout' /\ Has("write")')
       /\ (Has("reset_pollin")' \/ Has("reset_pollout")') =>
          (~Has("detach")' /\ ~disposed')]_vars

\* C12 as amended: the same, provided the consume / refill does not unplug
\* the engine reentrantly (then the engine ends unplugged, without detach and
\* without a write) and, for write interest, provided the attempted write
\* does not fail (then error runs, for the failure and not for the pause).
C12_BackpressureRecoverable ==
    [][/\ (op' = "activate_in" /\ plugged /\ ~pollin /\ insize > 0
              /\ Result("process_buffer")' = insize) =>
          /\ ~Has("read")' /\ insize' = 0 /\ ~Has("detach")' /\ ~disposed'
          /\ decoded' = decoded \o Buffered
          /\ IF Has("reentrant_unplug")'
             THEN ~plugged' /\ ~pollin'
             ELSE plugged' /\ pollin'
       /\ (op' = "activate_out" /\ plugged /\ ~pollout
              /\ Has("get_data")' /\ Result("get_data")' > 0) =>
          IF Has("reentrant_unplug")'
          THEN ~Has("write")' /\ ~plugged' /\ ~pollout' /\ ~Has("detach")'
          ELSE /\ Count("write")' = 1
               /\ IF Result("write")' = -1
                  THEN Has("detach")' /\ disposed' /\ ~pollout'
                  ELSE plugged' /\ pollout' /\ ~Has("detach")'
       /\ (Has("reset_pollin")' \/ Has("reset_pollout")') =>
          (~Has("detach")' /\ ~disposed' /\ plugged')]_vars

\* activate_in drained the bytes that were buffered while read interest was
\* paused, and read interest is active again.
C12_Witness ==
    /\ op = "activate_in" /\ ~Has("read") /\ HasCall("process_size", InBatch)
    /\ HasCall("process_buffer", InBatch)
    /\ plugged /\ pollin /\ insize = 0

\* C13: an in_event that starts with bytes buffered reads nothing from the
\* socket and acquires no buffer; it hands process_buffer exactly the
\* buffered bytes, and a result of k bytes moves the cursor by k and leaves
\* the other buffered bytes in place.
C13_RetryWithoutRead ==
    [][(RanInEvent' /\ insize > 0) =>
          /\ ~Has("read")' /\ ~Has("get_buffer")'
          /\ Count("process_buffer")' = 1
          /\ Result("process_size")' = insize
          /\ inbuf' = inbuf /\ rd' = rd
          /\ Result("process_buffer")' >= 0 =>
                /\ decoded' = decoded \o Bytes(inbuf, inpos, Result("process_buffer")')
                /\ inpos' = inpos + Result("process_buffer")'
                /\ insize' = insize - Result("process_buffer")'
                /\ Bytes(inbuf', inpos', insize') =
                      Bytes(Buffered, Result("process_buffer")', insize')]_vars

\* activate_in retried the buffered bytes and the decoder again took only a
\* part of them.
C13_Witness ==
    /\ op = "activate_in" /\ ~Has("read") /\ Has("process_buffer")
    /\ Result("process_buffer") > 0
    /\ Result("process_size") > Result("process_buffer")
    /\ insize = Result("process_size") - Result("process_buffer")

\* C14: every in_event flushes exactly once, a non-null session, after
\* process_buffer and before any detach; after a closed read the buffered
\* length is 0, process_buffer still runs with 0 bytes, and error follows the
\* flush.
C14_FlushOnceBeforeDetach ==
    RanInEvent =>
        /\ Count("flush") = 1 /\ NoSession \notin FlushTargets /\ ~aborted
        /\ Count("process_buffer") = 1
        /\ Idx("process_buffer") < Idx("flush")
        /\ Has("detach") => Idx("flush") < Idx("detach")
        /\ HasCall("read", -1) =>
              /\ insize = 0
              /\ Idx("read") < Idx("process_buffer")
              /\ Result("process_size") = 0
              /\ ~Has("reentrant_unplug") => (Has("detach") /\ disposed)
        /\ (HasCall("process_buffer", -1) /\ ~Has("reentrant_unplug")) =>
              (Has("detach") /\ disposed)

\* The peer closed the connection: the in_event flushed and then detached.
C14_Witness ==
    /\ op = "in_event" /\ HasCall("read", -1) /\ HasCall("process_buffer", 0)
    /\ Count("flush") = 1 /\ Has("detach") /\ disposed

\* The reactor interest toggles.
Toggles == {"set_pollin", "reset_pollin", "set_pollout", "reset_pollout"}

\* C15 as stated: write interest of a plugged engine is paused only by an
\* out_event whose refill is empty; a write that the socket accepts, whole or
\* in part, leaves write interest active and leaves exactly the bytes it did
\* not accept pending at the advanced cursor.
C15_Original ==
    [][/\ (Has("reset_pollout")' \/ (plugged /\ plugged' /\ pollout /\ ~pollout')) =>
          /\ RanOutEvent' /\ HasCall("get_data", 0)' /\ ~Has("write")'
          /\ Has("reset_pollout")'
       /\ (RanOutEvent' /\ Has("write")' /\ Result("write")' >= 0) =>
          /\ plugged' /\ pollout' /\ ~Has("reset_pollout")'
          /\ outsize' = (IF outsize > 0 THEN outsize ELSE Result("get_data")')
                           - Result("write")'
          /\ outpos' = (IF outsize > 0 THEN outpos ELSE 0) + Result("write")'
          /\ sent' \o Bytes(outbuf', outpos', outsize') =
                sent \o Bytes(outbuf', IF outsize > 0 THEN outpos ELSE 0,
                              IF outsize > 0 THEN outsize ELSE Result("get_data")')]_vars

\* C15 as amended: write interest of a plugged engine is paused only by an
\* out_event whose refill is empty; a write that the socket accepts, whole or
\* in part, does not touch write interest (it stays active when the out_event
\* ran with write interest active or inside activate_out, and stays paused
\* when the out_event ran while it was paused) and leaves exactly the bytes
\* it did not accept pending at the advanced cursor.
C15_WritePauseOnlyOnEmptyRefill ==
    [][/\ (Has("reset_pollout")' \/ (plugged /\ plugged' /\ pollout /\ ~pollout')) =>
          /\ RanOutEvent' /\ HasCall("get_data", 0)' /\ ~Has("write")'
          /\ Has("reset_pollout")'
       /\ (RanOutEvent' /\ Has("write")' /\ Result("write")' >= 0) =>
          /\ plugged' /\ ~Has("reset_pollout")'
          /\ pollout' = (pollout \/ op' = "activate_out")
          /\ outsize' = (IF outsize > 0 THEN outsize ELSE Result("get_data")')
                           - Result("write")'
          /\ outpos' = (IF outsize > 0 THEN outpos ELSE 0) + Result("write")'
          /\ sent' \o Bytes(outbuf', outpos', outsize') =
                sent \o Bytes(outbuf', IF outsize > 0 THEN outpos ELSE 0,
                              IF outsize > 0 THEN outsize ELSE Result("get_data")')]_vars

\* A write emptied the outbound buffer and write interest is still active.
C15_Witness ==
    /\ op = "out_event" /\ Has("write") /\ Result("write") > 0
    /\ outsize = 0 /\ plugged /\ pollout

\* C16: an out_event whose get_data unplugged the engine reentrantly writes
\* nothing and toggles no reactor interest after the unplug, whatever the
\* length of the chunk; it flushes the leftover session and returns.
C16_ReentrantUnplugInRefill ==
    (RanOutEvent /\ Has("reentrant_unplug")) =>
        /\ ~Has("write") /\ ~Has("reset_pollout") /\ ~Has("reset_pollin")
        /\ \A i \in DOMAIN calls :
              i > Idx("reentrant_unplug") => calls[i][1] \notin Toggles
        /\ Idx("get_data") < Idx("reentrant_unplug")
        /\ Count("flush") = 1 /\ FlushTargets = {leftover_session}
        /\ outsize = Result("get_data")
        /\ ~aborted /\ ~plugged /\ ~disposed /\ ~registered

\* get_data handed out a non-empty chunk and unplugged the engine.
C16_Witness ==
    /\ RanOutEvent /\ Has("reentrant_unplug")
    /\ Result("get_data") > 0 /\ outsize > 0 /\ ~Has("write")

\* C17: a decoding error leaves the inbound cursor and the buffered length
\* as they were when process_buffer was called, accepts no byte, does not
\* stop polling for input, and sets the disconnection flag.
C17_DecodeErrorFrame ==
    [][(RanInEvent' /\ HasCall("process_buffer", -1)') =>
          /\ ~Has("reset_pollin")'
          /\ disconnection'
          /\ decoded' = decoded
          /\ insize' = Result("process_size")'
          /\ IF insize > 0
             THEN insize' = insize /\ inpos' = inpos /\ inbuf' = inbuf
             ELSE /\ inpos' = 0
                  /\ insize' = (IF Result("read")' = -1 THEN 0 ELSE Result("read")')
          /\ ~lastShort']_vars

\* The decoder rejected bytes that are still buffered.
C17_Witness ==
    /\ RanInEvent /\ HasCall("process_buffer", -1)
    /\ insize > 0 /\ disconnection /\ disposed

\* C18: an out_event that starts with bytes pending asks the encoder for
\* nothing and makes one write; the outbound cursor and length move by the
\* bytes that write accepted and by nothing else.
C18_NoRefillWhilePending ==
    [][(RanOutEvent' /\ outsize > 0) =>
          /\ ~Has("get_data")' /\ Count("write")' = 1
          /\ produced' = produced /\ outbuf' = outbuf
          /\ Result("write")' <= outsize
          /\ outpos' = outpos + (IF Result("write")' = -1 THEN 0 ELSE Result("write")')
          /\ outsize' = outsize - (IF Result("write")' = -1 THEN 0 ELSE Result("write")')]_vars

\* An out_event wrote bytes of a chunk that an earlier write left pending.
C18_Witness ==
    /\ op = "out_event" /\ ~Has("get_data")
    /\ Has("write") /\ Result("write") > 0 /\ outpos > Result("write")

\* C19: while the engine object exists, plugged, a non-null session and a
\* registered handle go together; and no interest is paused after the handle
\* was removed.
C19_PluggedSessionRegistered ==
    /\ ~disposed => ((plugged <=> session # NoSession) /\ (plugged <=> registered))
    /\ ~aborted
    /\ \A i \in DOMAIN calls :
          calls[i][1] \in {"reset_pollin", "reset_pollout"} =>
             \A j \in 1..i : calls[j][1] # "rm_fd"

\* A plugged engine paused read interest on its registered handle.
C19_Witness ==
    /\ plugged /\ registered /\ session # NoSession
    /\ op = "in_event" /\ Has("reset_pollin") /\ ~pollin

\* C20: when error ran inside in_event or out_event, the delete is the last
\* thing the operation did: no call on a collaborator follows it, and the
\* engine fields are the ones error left (the views as they were when error
\* was called, the session moved to the leftover slot).
C20_NothingAfterDispose ==
    [][(Has("detach")' /\ (RanInEvent' \/ RanOutEvent')) =>
          /\ disposed' /\ ~aborted'
          /\ Count("delete")' = 1 /\ Idx("delete")' = Len(calls')
          /\ ~plugged' /\ session' = NoSession
          /\ leftover_session' = Result("detach")'
          /\ IF RanOutEvent'
             THEN /\ inpos' = inpos /\ insize' = insize
                  /\ outpos' = (IF outsize > 0 THEN outpos ELSE 0)
                  /\ outsize' = (IF outsize > 0 THEN outsize ELSE Result("get_data")')
             ELSE /\ outpos' = outpos /\ outsize' = outsize
                  /\ inpos' = (IF insize > 0 THEN inpos ELSE 0)
                  /\ insize' = Result("process_size")']_vars

\* plug ran in_event, which met a closed connection and disposed the engine.
C20_Witness == op = "plug" /\ Has("detach") /\ disposed /\ Has("delete")

====
